---- MODULE Spec2Model ----
(***************************************************************************)
(* A state-machine model of src/main.rs: the container launcher           *)
(*   your_docker run <image[:tag]> <command> [args...]                     *)
(* main() runs one sequential pipeline: parse the image argument, get an   *)
(* auth token, fetch the manifest, create a temporary directory, fetch and *)
(* unpack every layer, copy the executable, create dev/null, chroot,       *)
(* unshare the PID namespace, run the command, relay its output and exit.  *)
(* Every network answer, file-system outcome and child outcome is drawn    *)
(* from a small set at the step that consumes it.                          *)
(***************************************************************************)
EXTENDS Integers, Sequences, FiniteSets, TLC

\* ------------------------------------------------------------------ bounds
\* longest image argument, in characters
MaxLen == 3
\* longest layer list a manifest carries
MaxLayers == 2

\* ------------------------------------------------------------------ inputs
\* the characters of the image argument: an ordinary character and the separator
Chars == {"a", ":"}
Tokens == UNION {[1..n -> Chars] : n \in 0..MaxLen}

\* the default tag, line 18
Latest == <<"l", "a", "t", "e", "s", "t">>

\* the command argument args[3]: `lead` leading '/' characters followed by the
\* relative path CommandRel ("/bin/sh" has lead 1, "//bin/sh" has lead 2)
CommandRel == "bin/sh"
Leads == {1, 2}

\* the files a layer archive or the launcher may write below the root
FilePaths == {"bin/sh", "dev/null", "etc/os"}
ParentOf(p) == CASE p = "bin/sh" -> "bin"
                 [] p = "dev/null" -> "dev"
                 [] p = "etc/os" -> "etc"

\* file contents: Absent (no file), Empty (zero bytes), HostExe (the bytes of the
\* host's executable), or a layer digest (the bytes that layer's archive carries)
Absent == "absent"
Empty == "empty"
HostExe == "host_exe"

Digests == {"sha256:a", "sha256:b"}
NoDigest == "no_digest"
\* the registry is content-addressed: a digest names one archive
Blob(d) == IF d = "sha256:a" THEN {"bin/sh", "dev/null"} ELSE {"bin/sh", "etc/os"}

\* a layer array whose entries may lack a string digest
EntryLists == UNION {[1..n -> Digests \cup {NoDigest}] : n \in 0..MaxLayers}

\* what the child may write: nothing, ASCII, a two-byte UTF-8 character, a
\* byte that never occurs in UTF-8
ByteStrings == {<< >>, <<111>>, <<195, 169>>, <<255>>}
\* ExitStatus::code(): Some(code) as {code}, None (killed by a signal) as {}
StatusCodes == {{}, {0}, {7}}

\* ------------------------------------------------------------------ state
VARIABLES
  pc,            \* position in main()
  image,         \* args[2]
  command,       \* args[3], its number of leading '/'
  hostExe,       \* content of the host file at the command path
  image_name, image_tag,
  authResp,      \* the token endpoint's answer
  auth_token,
  manifestReq,   \* the manifest request sent
  manifestResp,  \* the manifest endpoint's answer
  layers,        \* the Vec<String> fetch_image_manifest returned
  idx,           \* the loop position in fetch_image_layers
  requested,     \* the blob digests requested so far, in order
  applied,       \* the digests whose archives were unpacked, in order
  tmp_dir,       \* "none" | "exists" | "removed" | "remove_failed"
  rootfs,        \* the files below tmp_dir
  dirs,          \* the directories below tmp_dir
  swallowed,     \* the best-effort operations that failed
  chrooted,
  output,        \* the child's Output, or NoOutput
  p_stdout, p_stderr,  \* what the parent printed
  result,        \* how the process ended
  stages         \* the stages entered, in order

vars == <<pc, image, command, hostExe, image_name, image_tag, authResp, auth_token,
          manifestReq, manifestResp, layers, idx, requested, applied, tmp_dir,
          rootfs, dirs, swallowed, chrooted, output, p_stdout, p_stderr, result,
          stages>>

NoOutput == [spawned |-> FALSE, code |-> {}, stdout |-> << >>, stderr |-> << >>]
NoReq == [sent |-> FALSE, name |-> << >>, tag |-> << >>, token |-> "none"]
NoResp == [kind |-> "none", shape |-> "none", ids |-> << >>]
EmptyFs == [p \in FilePaths |-> Absent]
Running == [kind |-> "running", code |-> 0, ctx |-> "", digest |-> "none"]

\* ------------------------------------------------------------------ helpers
\* str::split(':'), line 16: the segments between separators; never empty
RECURSIVE Split(_)
Split(s) ==
  IF \A i \in 1..Len(s) : s[i] # ":" THEN <<s>>
  ELSE LET k == CHOOSE i \in 1..Len(s) :
                  s[i] = ":" /\ \A j \in 1..(i - 1) : s[j] # ":"
       IN <<SubSeq(s, 1, k - 1)>> \o Split(SubSeq(s, k + 1, Len(s)))

\* ParseImage with the length test off by one (image_parts.len() > 2)
ParseImageOffByOne(s) ==
  LET image_parts == Split(s)
  IN [name |-> Head(image_parts),
      tag |-> IF Len(image_parts) > 2 THEN image_parts[2] ELSE Latest]

\* lines 16-21: the name is the first segment, the tag the second when present
ParseImage(s) ==
  LET image_parts == Split(s)
  IN [name |-> Head(image_parts),
      tag |-> IF Len(image_parts) > 1 THEN image_parts[2] ELSE Latest]

\* command.strip_prefix('/').unwrap_or(command), line 33, on the number of
\* leading separators: one is removed when there is one
StripPrefix(lead) == IF lead > 0 THEN lead - 1 ELSE lead

\* Path::join, lines 31-33: joining an absolute path replaces the base, so the
\* target lies below tmp_dir only when nothing absolute is left after the strip
TargetInRoot(lead) == StripPrefix(lead) = 0

\* main returning Err: the error chain is printed and the status is 1
Err(ctx, digest) == [kind |-> "err", code |-> 1, ctx |-> ctx, digest |-> digest]
\* a panic (unwrap / expect): the message is printed and the status is 101
Panic(msg) == [kind |-> "panic", code |-> 101, ctx |-> msg, digest |-> "none"]
\* std::process::exit(status_code), line 73
Exited(code) == [kind |-> "exit", code |-> code, ctx |-> "", digest |-> "none"]

\* DropTempDir for a directory that is kept (TempDir::into_path, mem::forget)
DropTempDirKept(t, ch, removed) == t

\* tmp_dir is a TempDir bound at line 26: leaving main by `?` drops it, which
\* removes the directory recursively by its absolute path and ignores a failure
\* of the removal (`removed` is whether it went through); after the chroot that
\* path no longer names the directory, so nothing is removed
DropTempDir(t, ch, removed) ==
  IF t = "exists" /\ ~ch
  THEN IF removed THEN "removed" ELSE "remove_failed"
  ELSE t

\* an early return from main with outcome r; whatever an interrupted unpack left
\* behind shares the fate of the directory
Return(r) ==
  /\ result' = r
  /\ pc' = "exited"
  /\ \E removed \in BOOLEAN : tmp_dir' = DropTempDir(tmp_dir, chrooted, removed)
  /\ rootfs' = IF tmp_dir' = "removed" THEN EmptyFs ELSE rootfs
  /\ dirs' = IF tmp_dir' = "removed" THEN {} ELSE dirs

\* Unpack that keeps a file already at the entry's path
UnpackKeepExisting(fs, d) ==
  [p \in FilePaths |-> IF p \in Blob(d) /\ fs[p] = Absent THEN d ELSE fs[p]]

\* archive.unpack(destination), lines 160-162: every entry of the archive is
\* written, replacing a file already at its path
Unpack(fs, d) == [p \in FilePaths |-> IF p \in Blob(d) THEN d ELSE fs[p]]
UnpackDirs(ds, d) == ds \cup {ParentOf(p) : p \in Blob(d)}

\* Option::unwrap_or_default on the child's status code, line 68
UnwrapOrDefault(code) == IF code = {} THEN 0 ELSE CHOOSE c \in code : TRUE

\* std::str::from_utf8, lines 69 and 71: Ok exactly for well-formed UTF-8
\* (lead byte, then the continuation bytes it announces)
IsCont(b) == b >= 128 /\ b <= 191
SeqLen(h) == IF h < 128 THEN 1
             ELSE IF h >= 194 /\ h <= 223 THEN 2
             ELSE IF h >= 224 /\ h <= 239 THEN 3
             ELSE IF h >= 240 /\ h <= 244 THEN 4
             ELSE 0
RECURSIVE Utf8Valid(_)
Utf8Valid(b) ==
  IF b = << >> THEN TRUE
  ELSE LET n == SeqLen(Head(b))
       IN /\ n > 0
          /\ Len(b) >= n
          /\ \A i \in 2..n : IsCont(b[i])
          /\ Utf8Valid(SubSeq(b, n + 1, Len(b)))

\* ------------------------------------------------------------------ Init
Init ==
  /\ pc = "parse"
  /\ image \in Tokens
  /\ command \in Leads
  /\ hostExe \in {Absent, HostExe}
  /\ image_name = << >>
  /\ image_tag = << >>
  /\ authResp = "none"
  /\ auth_token = "none"
  /\ manifestReq = NoReq
  /\ manifestResp = NoResp
  /\ layers = << >>
  /\ idx = 1
  /\ requested = << >>
  /\ applied = << >>
  /\ tmp_dir = "none"
  /\ rootfs = EmptyFs
  /\ dirs = {}
  /\ swallowed = {}
  /\ chrooted = FALSE
  /\ output = NoOutput
  /\ p_stdout = << >>
  /\ p_stderr = << >>
  /\ result = Running
  /\ stages = << >>

\* ------------------------------------------------------------------ actions
\* lines 15-21: split the image argument into name and tag
ParseImageArg ==
  /\ pc = "parse"
  /\ image_name' = ParseImage(image).name
  /\ image_tag' = ParseImage(image).tag
  /\ pc' = "auth"
  /\ UNCHANGED <<image, command, hostExe, authResp, auth_token, manifestReq,
                 manifestResp, layers, idx, requested, applied, tmp_dir, rootfs,
                 dirs, swallowed, chrooted, output, p_stdout, p_stderr, result,
                 stages>>

\* get_auth_token, lines 82-92: what each answer of the token endpoint yields
AuthResponses == {"send_fail", "body_fail", "not_json", "no_token",
                  "token_not_string", "ok"}
AuthOutcome(r) ==
  CASE r = "send_fail" -> Err("Tried to request an auth token", "none")
    [] r = "body_fail" -> Panic("called Result::unwrap() on an Err value")
    [] r = "not_json" -> Err("Tried to parse docker registry auth response", "none")
    [] r \in {"no_token", "token_not_string"} ->
         Panic("called Option::unwrap() on a None value")
    [] r = "ok" -> Running

\* line 23
GetAuthToken ==
  /\ pc = "auth"
  /\ \E r \in AuthResponses :
       /\ authResp' = r
       /\ stages' = Append(stages, "auth")
       /\ IF AuthOutcome(r).kind = "running"
          THEN /\ auth_token' = "token"
               /\ pc' = "manifest"
               /\ UNCHANGED <<result, tmp_dir, rootfs, dirs>>
          ELSE /\ Return(AuthOutcome(r))
               /\ UNCHANGED auth_token
  /\ UNCHANGED <<image, command, hostExe, image_name, image_tag, manifestReq,
                 manifestResp, layers, idx, requested, applied, swallowed,
                 chrooted, output, p_stdout, p_stderr>>

\* the answers of the manifest endpoint: a failed request, an unreadable body, a
\* body that is not JSON, or JSON with no layer list, with a `layers` array or
\* with an `fsLayers` array
ManifestResponses ==
  {[kind |-> k, shape |-> "none", ids |-> << >>] :
      k \in {"send_fail", "body_fail", "not_json", "json"}}
  \cup {[kind |-> "json", shape |-> s, ids |-> l] :
      s \in {"layers", "fsLayers"}, l \in EntryLists}

\* parsed_response["layers"].as_array(), lines 121-122: Some(array) as {array}
LayersArray(resp) == IF resp.shape = "layers" THEN {resp.ids} ELSE {}

\* fetch_image_manifest, lines 97-131
ManifestOutcome(resp) ==
  CASE resp.kind = "send_fail" -> Err("Tried fetching image manifest", "none")
    [] resp.kind = "body_fail" -> Panic("called Result::unwrap() on an Err value")
    [] resp.kind = "not_json" -> Err("Tried to parsed docker manifest response", "none")
    [] resp.kind = "json" ->
         IF LayersArray(resp) = {} THEN Panic("No layers found in manifest response")
         ELSE IF \E i \in 1..Len(resp.ids) : resp.ids[i] = NoDigest
         THEN Panic("called Option::unwrap() on a None value")
         ELSE Running

\* line 24
FetchImageManifest ==
  /\ pc = "manifest"
  /\ \E resp \in ManifestResponses :
       /\ manifestReq' = [sent |-> TRUE, name |-> image_name, tag |-> image_tag,
                          token |-> auth_token]
       /\ manifestResp' = resp
       /\ stages' = Append(stages, "manifest")
       /\ IF ManifestOutcome(resp).kind = "running"
          THEN /\ layers' = resp.ids
               /\ pc' = "tempdir"
               /\ UNCHANGED <<result, tmp_dir, rootfs, dirs>>
          ELSE /\ Return(ManifestOutcome(resp))
               /\ UNCHANGED layers
  /\ UNCHANGED <<image, command, hostExe, image_name, image_tag, authResp,
                 auth_token, idx, requested, applied, swallowed, chrooted, output,
                 p_stdout, p_stderr>>

\* line 26: tempdir()
CreateTempDir ==
  /\ pc = "tempdir"
  /\ stages' = Append(stages, "tempdir")
  /\ \E ok \in BOOLEAN :
       IF ok
       THEN /\ tmp_dir' = "exists"
            /\ pc' = "layer_send"
            /\ UNCHANGED <<result, rootfs, dirs>>
       ELSE Return(Err("Tried to create temporary directory", "none"))
  /\ UNCHANGED <<image, command, hostExe, image_name, image_tag, authResp,
                 auth_token, manifestReq, manifestResp, layers, idx, requested,
                 applied, swallowed, chrooted, output, p_stdout, p_stderr>>

\* fetch_image_layers, lines 145-153: the loop head and the blob request of the
\* next layer; past the last layer the function returns Ok
LayerSend ==
  /\ pc = "layer_send"
  /\ stages' = IF idx = 1 THEN Append(stages, "layers") ELSE stages
  /\ IF idx > Len(layers)
     THEN /\ pc' = "mkdirs"
          /\ UNCHANGED <<requested, result, tmp_dir, rootfs, dirs>>
     ELSE /\ requested' = Append(requested, layers[idx])
          /\ \E ok \in BOOLEAN :
               IF ok
               THEN /\ pc' = "layer_body"
                    /\ UNCHANGED <<result, tmp_dir, rootfs, dirs>>
               ELSE Return(Err("Tried fetching layer", layers[idx]))
  /\ UNCHANGED <<image, command, hostExe, image_name, image_tag, authResp,
                 auth_token, manifestReq, manifestResp, layers, idx, applied,
                 swallowed, chrooted, output, p_stdout, p_stderr>>

\* line 154: blob_response.bytes()?, an error without context
LayerBody ==
  /\ pc = "layer_body"
  /\ \E ok \in BOOLEAN :
       IF ok
       THEN /\ pc' = "layer_unpack"
            /\ UNCHANGED <<result, tmp_dir, rootfs, dirs>>
       ELSE Return(Err("error decoding response body", "none"))
  /\ UNCHANGED <<image, command, hostExe, image_name, image_tag, authResp,
                 auth_token, manifestReq, manifestResp, layers, idx, requested,
                 applied, swallowed, chrooted, output, p_stdout, p_stderr, stages>>

\* lines 156-163: decompress and unpack the archive, then the next iteration
LayerUnpack ==
  /\ pc = "layer_unpack"
  /\ \E ok \in BOOLEAN :
       IF ok
       THEN /\ rootfs' = Unpack(rootfs, layers[idx])
            /\ dirs' = UnpackDirs(dirs, layers[idx])
            /\ applied' = Append(applied, layers[idx])
            /\ idx' = idx + 1
            /\ pc' = "layer_send"
            /\ UNCHANGED <<result, tmp_dir>>
       ELSE /\ Return(Err("Unable to unpack to", "none"))
            /\ UNCHANGED <<applied, idx>>
  /\ UNCHANGED <<image, command, hostExe, image_name, image_tag, authResp,
                 auth_token, manifestReq, manifestResp, layers, requested,
                 swallowed, chrooted, output, p_stdout, p_stderr, stages>>

\* lines 30-36: create_dir_all of the parent of target_chroot_path
CreateExeDirs ==
  /\ pc = "mkdirs"
  /\ stages' = Append(stages, "assembly")
  /\ \E ok \in BOOLEAN :
       IF ok
       THEN /\ dirs' = IF TargetInRoot(command)
                       THEN dirs \cup {ParentOf(CommandRel)} ELSE dirs
            /\ pc' = "copy"
            /\ UNCHANGED <<result, tmp_dir, rootfs>>
       ELSE Return(Err("Tried to create directories to contain executable inside the chroot",
                       "none"))
  /\ UNCHANGED <<image, command, hostExe, image_name, image_tag, authResp,
                 auth_token, manifestReq, manifestResp, layers, idx, requested,
                 applied, swallowed, chrooted, output, p_stdout, p_stderr>>

\* CopyExe with the result of fs::copy dropped (let _ = fs::copy(..))
CopyExeUnchecked ==
  /\ pc = "copy"
  /\ rootfs' = IF TargetInRoot(command) /\ hostExe # Absent
               THEN [rootfs EXCEPT ![CommandRel] = hostExe]
               ELSE rootfs
  /\ pc' = "devdir"
  /\ UNCHANGED <<image, command, hostExe, image_name, image_tag, authResp,
                 auth_token, manifestReq, manifestResp, layers, idx, requested,
                 applied, tmp_dir, dirs, swallowed, chrooted, output, p_stdout,
                 p_stderr, result, stages>>

\* lines 37-38: fs::copy(command, target_chroot_path). The source is the host
\* file; the target lies below tmp_dir, or is the host file itself when the join
\* kept nothing of tmp_dir: fs::copy opens its target with truncate, so copying
\* a file onto itself leaves it empty
CopyExe ==
  /\ pc = "copy"
  /\ IF hostExe = Absent
     THEN /\ Return(Err("Tried to copy executable into chroot", "none"))
          /\ UNCHANGED hostExe
     ELSE \E ok \in BOOLEAN :
            IF ok
            THEN /\ rootfs' = IF TargetInRoot(command)
                              THEN [rootfs EXCEPT ![CommandRel] = hostExe]
                              ELSE rootfs
                 /\ hostExe' = IF TargetInRoot(command) THEN hostExe ELSE Empty
                 /\ pc' = "devdir"
                 /\ UNCHANGED <<result, tmp_dir, dirs>>
            ELSE /\ Return(Err("Tried to copy executable into chroot", "none"))
                 /\ UNCHANGED hostExe
  /\ UNCHANGED <<image, command, image_name, image_tag, authResp, auth_token,
                 manifestReq, manifestResp, layers, idx, requested, applied,
                 swallowed, chrooted, output, p_stdout, p_stderr, stages>>

\* line 41: let _ = fs::create_dir(tmp_dir/dev); it fails when a layer already
\* brought the directory, or for any other reason, and the result is dropped
CreateDevDir ==
  /\ pc = "devdir"
  /\ \E ok \in BOOLEAN :
       IF ok /\ "dev" \notin dirs
       THEN /\ dirs' = dirs \cup {"dev"}
            /\ UNCHANGED swallowed
       ELSE /\ swallowed' = swallowed \cup {"create_dir"}
            /\ UNCHANGED dirs
  /\ pc' = "devnull"
  /\ UNCHANGED <<image, command, hostExe, image_name, image_tag, authResp,
                 auth_token, manifestReq, manifestResp, layers, idx, requested,
                 applied, tmp_dir, rootfs, chrooted, output, p_stdout, p_stderr,
                 result, stages>>

\* line 42: let _ = fs::write(tmp_dir/dev/null, b""); it needs the directory,
\* creates or truncates the file, and the result is dropped
WriteDevNull ==
  /\ pc = "devnull"
  /\ \E ok \in BOOLEAN :
       IF ok /\ "dev" \in dirs
       THEN /\ rootfs' = [rootfs EXCEPT !["dev/null"] = Empty]
            /\ UNCHANGED swallowed
       ELSE /\ swallowed' = swallowed \cup {"write"}
            /\ UNCHANGED rootfs
  /\ pc' = "chroot"
  /\ UNCHANGED <<image, command, hostExe, image_name, image_tag, authResp,
                 auth_token, manifestReq, manifestResp, layers, idx, requested,
                 applied, tmp_dir, dirs, chrooted, output, p_stdout, p_stderr,
                 result, stages>>

\* lines 44-45: chroot(tmp_dir.path())
Chroot ==
  /\ pc = "chroot"
  /\ stages' = Append(stages, "chroot")
  /\ \E ok \in BOOLEAN :
       IF ok
       THEN /\ chrooted' = TRUE
            /\ pc' = "unshare"
            /\ UNCHANGED <<result, tmp_dir, rootfs, dirs>>
       ELSE /\ Return(Err("Tried to chroot into", "none"))
            /\ UNCHANGED chrooted
  /\ UNCHANGED <<image, command, hostExe, image_name, image_tag, authResp,
                 auth_token, manifestReq, manifestResp, layers, idx, requested,
                 applied, swallowed, output, p_stdout, p_stderr>>

\* lines 47-49: libc::unshare(CLONE_NEWPID), its return value unread
Unshare ==
  /\ pc = "unshare"
  /\ stages' = Append(stages, "unshare")
  /\ \E ok \in BOOLEAN :
       swallowed' = IF ok THEN swallowed ELSE swallowed \cup {"unshare"}
  /\ pc' = "spawn"
  /\ UNCHANGED <<image, command, hostExe, image_name, image_tag, authResp,
                 auth_token, manifestReq, manifestResp, layers, idx, requested,
                 applied, tmp_dir, rootfs, dirs, chrooted, output, p_stdout,
                 p_stderr, result>>

\* lines 52-61: Command::new(command).args(..).output(): the command path is
\* looked up in the new root; the child runs to its end and its output and
\* status are captured
Spawn ==
  /\ pc = "spawn"
  /\ stages' = Append(stages, "spawn")
  /\ \E ok \in BOOLEAN, code \in StatusCodes, out \in ByteStrings, err \in ByteStrings :
       IF ok /\ rootfs[CommandRel] # Absent
       THEN /\ output' = [spawned |-> TRUE, code |-> code, stdout |-> out,
                          stderr |-> err]
            /\ pc' = "relay_out"
            /\ UNCHANGED <<result, tmp_dir, rootfs, dirs>>
       ELSE /\ Return(Err("Tried to run", "none"))
            /\ UNCHANGED output
  /\ UNCHANGED <<image, command, hostExe, image_name, image_tag, authResp,
                 auth_token, manifestReq, manifestResp, layers, idx, requested,
                 applied, swallowed, chrooted, p_stdout, p_stderr>>

\* lines 68-70: the status code is read, stdout is decoded and printed
RelayStdout ==
  /\ pc = "relay_out"
  /\ stages' = Append(stages, "relay")
  /\ IF Utf8Valid(output.stdout)
     THEN /\ p_stdout' = p_stdout \o output.stdout
          /\ pc' = "relay_err"
          /\ UNCHANGED <<result, tmp_dir, rootfs, dirs>>
     ELSE /\ Return(Err("invalid utf-8 sequence", "none"))
          /\ UNCHANGED p_stdout
  /\ UNCHANGED <<image, command, hostExe, image_name, image_tag, authResp,
                 auth_token, manifestReq, manifestResp, layers, idx, requested,
                 applied, swallowed, chrooted, output, p_stderr>>

\* lines 71-73: stderr is decoded and printed, then std::process::exit, which
\* runs no destructor
RelayStderrAndExit ==
  /\ pc = "relay_err"
  /\ IF Utf8Valid(output.stderr)
     THEN /\ p_stderr' = p_stderr \o output.stderr
          /\ result' = Exited(UnwrapOrDefault(output.code))
          /\ pc' = "exited"
          /\ UNCHANGED <<tmp_dir, rootfs, dirs>>
     ELSE /\ Return(Err("invalid utf-8 sequence", "none"))
          /\ UNCHANGED p_stderr
  /\ UNCHANGED <<image, command, hostExe, image_name, image_tag, authResp,
                 auth_token, manifestReq, manifestResp, layers, idx, requested,
                 applied, swallowed, chrooted, output, p_stdout, stages>>

Next ==
  \/ ParseImageArg
  \/ GetAuthToken
  \/ FetchImageManifest
  \/ CreateTempDir
  \/ LayerSend
  \/ LayerBody
  \/ LayerUnpack
  \/ CreateExeDirs
  \/ CopyExe
  \/ CreateDevDir
  \/ WriteDevNull
  \/ Chroot
  \/ Unshare
  \/ Spawn
  \/ RelayStdout
  \/ RelayStderrAndExit

Spec == Init /\ [][Next]_vars

\* ------------------------------------------------------------------ claims
LastStage == IF stages = << >> THEN "none" ELSE stages[Len(stages)]
NumColons(s) == Cardinality({i \in 1..Len(s) : s[i] = ":"})
\* the content the last layer of ls that wrote p left there
LastWrittenIn(ls, p) ==
  LET writers == {i \in 1..Len(ls) : p \in Blob(ls[i])}
  IN IF writers = {} THEN Absent
     ELSE ls[CHOOSE i \in writers : \A j \in writers : j <= i]
AuthContexts == {"Tried to request an auth token",
                 "Tried to parse docker registry auth response"}
ManifestContexts == {"Tried fetching image manifest",
                     "Tried to parsed docker manifest response"}
StageOrder == <<"auth", "manifest", "tempdir", "layers", "assembly", "chroot",
                "unshare", "spawn", "relay">>

\* C1: once a spawned child has terminated and the parent has ended, the parent
\* has written exactly the captured stdout and stderr and ended with the child's
\* status code, or 0 when the child has none, whatever the bytes were.
C1_RelayVerbatim ==
  (output.spawned /\ pc = "exited") =>
    /\ p_stdout = output.stdout
    /\ p_stderr = output.stderr
    /\ result.kind = "exit"
    /\ \/ output.code = {} /\ result.code = 0
       \/ output.code = {result.code}

\* C2: the blobs are requested in manifest order, one at a time, each only after
\* the one before it has been unpacked; when fetch_image_layers has returned Ok
\* every layer has been unpacked and every path holds what the last layer in
\* manifest order that wrote it carries.
C2_LayersInManifestOrder ==
  /\ requested = SubSeq(layers, 1, Len(requested))
  /\ applied = SubSeq(layers, 1, Len(applied))
  /\ Len(applied) <= Len(requested)
  /\ Len(requested) <= Len(applied) + 1
  /\ pc = "layer_send" => Len(requested) = Len(applied)
  /\ pc = "mkdirs" =>
       /\ applied = layers
       /\ \A p \in FilePaths : rootfs[p] = LastWrittenIn(layers, p)

\* C2 witness: two different layers that both carry bin/sh were unpacked and the
\* second one's content is there.
C2_Witness ==
  /\ pc = "mkdirs"
  /\ Len(layers) = 2
  /\ layers[1] # layers[2]
  /\ rootfs["bin/sh"] = layers[2]
  /\ rootfs["dev/null"] = "sha256:a"

\* C3: a manifest that carries its identifiers as fsLayers/blobSum is resolved
\* to the ordered list of its blobSum strings and the run goes on to the layers.
C3_FsLayersResolved ==
  (/\ manifestResp.kind = "json"
   /\ manifestResp.shape = "fsLayers"
   /\ \A i \in 1..Len(manifestResp.ids) : manifestResp.ids[i] \in Digests) =>
    /\ layers = manifestResp.ids
    /\ result.kind \notin {"err", "panic"} \/ LastStage # "manifest"

\* C4: an auth answer without a string token ends the run with the auth error,
\* a manifest answer without a layer list with the manifest error; either way
\* the status is not 0, no blob was requested, no chroot, no child, and nothing
\* on the host was created or changed.
C4_MissingFieldIsError ==
  /\ authResp \in {"no_token", "token_not_string"} =>
       /\ result.kind = "err"
       /\ result.ctx \in AuthContexts
  /\ (manifestResp.kind = "json" /\ manifestResp.shape = "none") =>
       /\ result.kind = "err"
       /\ result.ctx \in ManifestContexts
  /\ (\/ authResp \in {"no_token", "token_not_string"}
      \/ manifestResp.kind = "json" /\ manifestResp.shape = "none") =>
       /\ pc = "exited"
       /\ result.code # 0
       /\ requested = << >>
       /\ ~chrooted
       /\ ~output.spawned
       /\ tmp_dir = "none"
       /\ hostExe # Empty

\* C5 as stated: when a layer fails the run ends with an error and the isolated
\* root still exists, holding the layers unpacked before the failing one.
C5_RootKeptOnLayerFailure ==
  (pc = "exited" /\ LastStage = "layers") =>
    /\ result.kind = "err"
    /\ tmp_dir \in {"exists", "remove_failed"}
    /\ \A p \in FilePaths : rootfs[p] = LastWrittenIn(applied, p)

\* C5 as amended: when layer N fails the run ends with an error (status 1),
\* layers 1..N-1 had been unpacked, and the return from main drops the TempDir:
\* the isolated root is removed, or its removal was attempted and failed; once
\* removed nothing of it is left.
C5_RootRemovedOnLayerFailure ==
  (pc = "exited" /\ LastStage = "layers") =>
    /\ result.kind = "err"
    /\ result.code = 1
    /\ idx <= Len(layers)
    /\ applied = SubSeq(layers, 1, idx - 1)
    /\ tmp_dir \in {"removed", "remove_failed"}
    /\ tmp_dir = "removed" => (rootfs = EmptyFs /\ dirs = {})

\* C5 witness: the second layer failed after the first had been unpacked.
C5_Witness ==
  /\ pc = "exited"
  /\ LastStage = "layers"
  /\ Len(applied) = 1
  /\ idx = 2
  /\ tmp_dir = "removed"

\* C6: every failure of fetch_image_layers is reported as an error that names
\* the digest of the layer that failed.
C6_LayerErrorNamesDigest ==
  (pc = "exited" /\ LastStage = "layers") =>
    /\ result.kind = "err"
    /\ result.digest = layers[idx]

\* C7: when root assembly has succeeded and the chroot is about to be attempted,
\* the isolated root holds the executable at the command path without its
\* leading separator, with the content of the host file.
C7_ExeInRootBeforeChroot ==
  pc \in {"devdir", "devnull", "chroot"} => rootfs[CommandRel] = HostExe

\* C8: when a best-effort operation (create_dir dev, write dev/null, unshare)
\* has failed, the run is not ended by it, and once the child has been spawned
\* the parent ends with the child's status.
C8_BestEffortHarmless ==
  /\ (swallowed # {} /\ result.kind \in {"err", "panic"}) =>
       LastStage \in {"chroot", "spawn"}
  /\ (swallowed # {} /\ output.spawned /\ pc = "exited") =>
       /\ result.kind = "exit"
       /\ \/ output.code = {} /\ result.code = 0
          \/ output.code = {result.code}

\* C9: the stages entered are an initial part of Auth, Manifest, TempDir,
\* Layers, Assembly, Chroot, Unshare, Spawn, Relay, each entered once; a run
\* that ended in an error or a panic before the relay has a non-zero status, has
\* printed nothing on stdout and has spawned no child that it relays; a missing
\* host executable never gets as far as the chroot; and once the process has
\* ended no stage is entered.
C9_StateInv ==
  /\ stages = SubSeq(StageOrder, 1, Len(stages))
  /\ result.kind # "running" <=> pc = "exited"
  /\ (result.kind \in {"err", "panic"} /\ LastStage # "relay") =>
       /\ result.code # 0
       /\ p_stdout = << >>
       /\ ~output.spawned
  /\ hostExe = Absent => (~chrooted /\ pc \notin {"devdir", "devnull", "chroot",
                                                 "unshare", "spawn", "relay_out",
                                                 "relay_err"})
C9_StagesInOrder ==
  /\ []C9_StateInv
  /\ [][result.kind # "running" => UNCHANGED vars]_vars

\* C9 witness: the chroot failed after every earlier stage had run.
C9_Witness ==
  /\ pc = "exited"
  /\ result.kind = "err"
  /\ stages = SubSeq(StageOrder, 1, 6)
  /\ Len(applied) = 2

\* C10: an image argument with one ':' is parsed to the text before it and the
\* text after it, one with no ':' to itself and the tag "latest"; the manifest
\* request carries exactly that name and tag.
C10_ImageParsed ==
  /\ (pc # "parse" /\ NumColons(image) = 0) =>
       /\ image_name = image
       /\ image_tag = Latest
  /\ (pc # "parse" /\ NumColons(image) = 1) =>
       /\ image = image_name \o <<":">> \o image_tag
       /\ NumColons(image_name) = 0
       /\ NumColons(image_tag) = 0
  /\ (manifestReq.sent /\ NumColons(image) = 0) =>
       /\ manifestReq.name = image
       /\ manifestReq.tag = Latest
  /\ (manifestReq.sent /\ NumColons(image) = 1) =>
       image = manifestReq.name \o <<":">> \o manifestReq.tag

\* C10 witness: "a:a" was parsed and the manifest of name "a", tag "a" requested.
C10_Witness ==
  /\ manifestReq.sent
  /\ image = <<"a", ":", "a">>
  /\ manifestReq.name = <<"a">>
  /\ manifestReq.tag = <<"a">>

====
